---- MODULE Spec2Model ----
(***************************************************************************)
(* Model of the resumable Gemini sentiment classifier,                     *)
(* src/gemini_classifier/gemini_classifier.py: load_progress,              *)
(* get_sentiments_from_gemini, save_progress and analyze_comments.         *)
(* One run of analyze_comments is a state machine over pc; the remote      *)
(* model, the file system and the user's Ctrl-C are the environment.       *)
(***************************************************************************)
EXTENDS Integers, Sequences, FiniteSets, TLC

\* ------------------------------------------------------------------ bounds
MaxSrc == 2        \* longest source CSV (rows)
MaxBatch == 2      \* largest --batch_size
MaxPrior == 1      \* longest prior output file (tasks)
MaxIdx == 1        \* largest --start-from / --end-at / --limit value

\* ------------------------------------------------------- program constants
MaxAttempts == 3   \* for attempt in range(3)
BackoffUnit == 3   \* time.sleep(3 * (attempt + 1))
FenceSuffixLen == 3 \* cleaned_response[7:-3]

\* argparse default=None for --limit, --start-from, --end-at
NONE == -1

\* ----------------------------------------------------------------- values
Texts == {"a", "b"}
valid_labels == {"positive", "negative", "neutral"}
\* elements a decoded response array may hold: a valid label, a string that is
\* no label, and a value that is no string (JSON null, Python None)
JsonNull == "null"
RawElems == {"positive", "happy", JsonNull}
\* labels found in a prior output file
PriorLabels == {"negative", "happy"}
ModelName == "gemini"

Min(x, y) == IF x < y THEN x ELSE y

SeqsUpTo(S, n) == UNION {[1..k -> S] : k \in 0..n}

\* df.iloc[a:b] for a, b >= 0: Python slice semantics, clamped to the length
ILoc(s, a, b) ==
    LET lo == Min(a, Len(s))
        hi == Min(b, Len(s))
    IN  IF lo >= hi THEN <<>> ELSE SubSeq(s, lo + 1, hi)

\* df.head(n) for n >= 0
DfHead(s, n) == ILoc(s, 0, n)

\* x or y  (Python truthiness of an optional int: None and 0 are falsy)
Falsy(x) == x = NONE \/ x = 0
OrElse(x, y) == IF Falsy(x) THEN y ELSE x

\* ----------------------------------------------------------------- tasks
\* mutant of format_for_label_studio: the default model name is stored whatever
\* model was used
FormatDefaultVersion(comment_text, label, model_version) ==
    [text |-> comment_text, label |-> label, model_version |-> "gemini-1.5-pro-latest"]

format_for_label_studio(comment_text, label, model_version) ==
    [text |-> comment_text, label |-> label, model_version |-> model_version]

\* ------------------------------------------------------------ output file
\* The text of a JSON file, one token per delimiter, string or number (commas
\* and indentation left out).  json.dump(tasks, f, ensure_ascii=False, indent=2)
\* mutant of DumpTask: the label is written where the text belongs
DumpTaskSwapped(t) == <<"{", t.label, t.text, t.model_version, "}">>

DumpTask(t) == <<"{", t.text, t.label, t.model_version, "}">>
RECURSIVE DumpItems(_)
DumpItems(tasks) ==
    IF tasks = <<>> THEN <<>> ELSE DumpTask(Head(tasks)) \o DumpItems(Tail(tasks))
json_dump(tasks) == <<"[">> \o DumpItems(tasks) \o <<"]">>

\* json.load(f): the value the text denotes
\*   error   the text is no JSON value (json.JSONDecodeError)
\*   number  a JSON number
\*   list    a JSON array; its items are task objects or numbers
NonTask == [number |-> "7"]
IsTask(x) == DOMAIN x = {"text", "label", "model_version"}
RECURSIVE ParseItems(_)
ParseItems(toks) ==
    IF toks = <<>> THEN [ok |-> TRUE, items |-> <<>>]
    ELSE IF toks[1] = "7"
    THEN LET r == ParseItems(Tail(toks))
         IN  [ok |-> r.ok, items |-> <<NonTask>> \o r.items]
    ELSE IF Len(toks) >= 5 /\ toks[1] = "{" /\ toks[5] = "}"
    THEN LET r == ParseItems(SubSeq(toks, 6, Len(toks)))
         IN  [ok |-> r.ok,
              items |-> <<[text |-> toks[2], label |-> toks[3],
                           model_version |-> toks[4]]>> \o r.items]
    ELSE [ok |-> FALSE, items |-> <<>>]
json_load(text) ==
    IF text = <<"7">> THEN [kind |-> "number", items |-> <<>>]
    ELSE IF Len(text) >= 2 /\ text[1] = "[" /\ text[Len(text)] = "]"
    THEN LET r == ParseItems(SubSeq(text, 2, Len(text) - 1))
         IN  IF r.ok THEN [kind |-> "list", items |-> r.items]
             ELSE [kind |-> "error", items |-> <<>>]
    ELSE [kind |-> "error", items |-> <<>>]

\* The output file:
\*   missing     os.path.exists is false
\*   unreadable  open() raises IOError (no permission, a directory)
\*   binary      the bytes are no UTF-8: reading raises UnicodeDecodeError
\*   text        UTF-8 text
MissingFile == [kind |-> "missing", text |-> <<>>]
UnreadableFile == [kind |-> "unreadable", text |-> <<>>]
BinaryFile == [kind |-> "binary", text |-> <<>>]
TextFile(text) == [kind |-> "text", text |-> text]
\* a file cut short (by a failed write, say): json.load rejects it
CorruptFile == TextFile(<<"[", "{">>)
\* valid JSON that is no list of tasks
NumberFile == TextFile(<<"7">>)
NumbersFile == TextFile(<<"[", "7", "]">>)
TasksFile(tasks) == TextFile(json_dump(tasks))

\* texts found in a prior output file
PriorTexts == {"a"}
PriorTasks == {format_for_label_studio(t, l, ModelName) : t \in PriorTexts, l \in PriorLabels}
PriorFiles == {MissingFile, UnreadableFile, BinaryFile, CorruptFile, NumberFile, NumbersFile}
              \cup {TasksFile(s) : s \in SeqsUpTo(PriorTasks, MaxPrior)}

\* load_progress(path): what it returns, or the exception it lets out
Return(v) == [raised |-> "none", value |-> v]
Raise(e) == [raised |-> e, value |-> <<>>]
load_progress(f) ==
    CASE f.kind = "missing" -> Return(<<>>)                   \* lines 92-94
      [] f.kind = "unreadable" -> Return(<<>>)                \* IOError, caught
      [] f.kind = "binary" -> Raise("UnicodeDecodeError")     \* not caught
      [] OTHER ->
           LET tasks == json_load(f.text)
           IN  CASE tasks.kind = "error" -> Return(<<>>)      \* JSONDecodeError, caught
                 [] tasks.kind = "number" -> Raise("TypeError")   \* len(tasks), line 98
                 [] OTHER -> Return(tasks.items)

\* the file parses as a JSON array of task objects, and those tasks
HoldsTasks(f) ==
    /\ f.kind = "text"
    /\ LET tasks == json_load(f.text)
       IN  tasks.kind = "list" /\ \A j \in 1..Len(tasks.items) : IsTask(tasks.items[j])
FileTasks(f) == json_load(f.text).items

\* {task['data']['text'] for task in ls_tasks}
TextsOf(tasks) == {tasks[j].text : j \in 1..Len(tasks)}

\* ------------------------------------------------------------ source rows
Row(author, comment) == [Author |-> author, Comment |-> comment]
SourceRows == {Row("user", t) : t \in Texts}
Comments(d) == [j \in 1..Len(d) |-> d[j].Comment]

\* pd.read_csv(input_csv): a cell whose text is empty or one of pandas' default
\* NA markers (two of them here) is read as the missing value NaN; every other
\* cell keeps its text
NaN == "NaN"
NaTokens == {"", "N/A", "NaN"}
ParseCell(c) == IF c \in NaTokens THEN NaN ELSE c
read_csv(rows) ==
    [j \in 1..Len(rows) |-> Row(ParseCell(rows[j].Author), ParseCell(rows[j].Comment))]
\* rows of a source that needs cleaning
RawRows == {Row(a, c) : a \in {"user", "AutoModerator"},
                        c \in {"a", "b", "", "N/A", "[deleted]", "[removed]"}}

\* dropna / isin(['[deleted]', '[removed]']) / isin(['AutoModerator'])
KeepRow(r) ==
    /\ r.Comment # NaN
    /\ r.Comment \notin {"[deleted]", "[removed]"}
    /\ r.Author \notin {"AutoModerator"}
Clean(rows) == SelectSeq(rows, KeepRow)

\* ------------------------------------------------- remote model responses
\* A decoded-or-not response body: what json.loads makes of the text.
\*   array   a JSON array of elems
\*   object  a JSON object (len() works, isinstance(list) fails)
\*   string  a JSON string (len() works, isinstance(list) fails)
\*   number  a JSON number of `digits` digits (len() raises TypeError)
\*   garbage text json.loads rejects (prose, a truncated value, the empty string)
Body(kind, elems, digits) == [kind |-> kind, elems |-> elems, digits |-> digits]
Garbage == Body("garbage", <<>>, 0)
\* The bodies tried against a batch of n comments: every array of the right
\* length, one too short, one too long, and every kind that is no array.
Bodies(n) ==
    {Body("array", e, 0) : e \in [1..n -> RawElems]}
    \cup {Body("array", [j \in 1..m |-> "positive"], 0) : m \in {n - 1, n + 1}}
    \cup {Body("object", <<>>, 0), Body("string", <<>>, 0), Garbage}
    \cup {Body("number", <<>>, d) : d \in {2, 5}}

\* A response of model.generate_content:
\*   raise    the call raised (network fault, quota, ...)
\*   blocked  response.candidates is empty
\*   text     response.text is the body, bare (fence "none"), wrapped in
\*            ```json ... ``` (fence "closed") or opened by ```json and
\*            never closed (fence "open")
Response(kind, fence, body) == [kind |-> kind, fence |-> fence, body |-> body]
NoResponse == Response("none", "none", Garbage)
ResponsesFor(n) ==
    {Response("raise", "none", Garbage), Response("blocked", "none", Garbage)}
    \cup {Response("text", f, b) : f \in {"none", "closed", "open"}, b \in Bodies(n)}

\* the same sets, computed once per batch length
ResponseTable == [n \in 0..MaxBatch |-> ResponsesFor(n)]
Responses(n) == ResponseTable[n]

\* The text with its last FenceSuffixLen characters cut off: a delimited value
\* loses its closing delimiter, a number loses digits (all of them if it is short).
Truncate(b) ==
    IF b.kind = "number" /\ b.digits > FenceSuffixLen
    THEN Body("number", <<>>, b.digits - FenceSuffixLen)
    ELSE Garbage

\* lines 51-53: strip(); if startswith("```json"): [7:-3].strip()
CleanResponse(r) ==
    IF r.fence = "none" \/ r.fence = "closed" THEN r.body ELSE Truncate(r.body)

\* mutant of Outcome: any decoded array is a success, whatever its length
OutcomeAnyLength(r, n) ==
    IF r.kind = "raise" THEN "api_error"
    ELSE IF r.kind = "blocked" THEN "blocked"
    ELSE LET v == CleanResponse(r) IN
         IF v.kind = "garbage" THEN "decode_error"
         ELSE IF v.kind = "array" THEN "success"
         ELSE IF v.kind = "number" THEN "api_error"
         ELSE "mismatch"

\* lines 45-62: what one attempt makes of one response, for a batch of n comments
Outcome(r, n) ==
    IF r.kind = "raise" THEN "api_error"
    ELSE IF r.kind = "blocked" THEN "blocked"
    ELSE LET v == CleanResponse(r) IN
         IF v.kind = "garbage" THEN "decode_error"
         ELSE IF v.kind = "array" /\ Len(v.elems) = n THEN "success"
         ELSE IF v.kind = "number" THEN "api_error"   \* len(sentiments) raises
         ELSE "mismatch"

\* the value get_sentiments_from_gemini returns: a list, or None
Labels(vals) == [ok |-> TRUE, vals |-> vals]
None_ == [ok |-> FALSE, vals |-> <<>>]
\* if sentiments:
Truthy(s) == s.ok /\ Len(s.vals) > 0

\* mutant of Validate: an element that is no label is stored as positive
ValidatePositive(sentiment) ==
    IF sentiment \notin valid_labels THEN "positive" ELSE sentiment

\* mutant of Validate: the raw element is stored
ValidateRaw(sentiment) == sentiment

\* lines 160-162
Validate(sentiment) == IF sentiment \notin valid_labels THEN "neutral" ELSE sentiment

\* ------------------------------------------------------------------ state
VARIABLES
    pc,                  \* position of the run
    exit,                \* how the batch loop was left: none, normal, interrupt, error
    raised,              \* exception that escaped analyze_comments, or "none"
    api_key,             \* gemini_api_key as resolved from --api_key, the environment or the prompt
    input_csv,           \* the source file: [exists, rows]
    prior_file,          \* the output file as it was when the run started
    file,                \* the output file
    batch_size, limit, start_from, end_at,
    ls_tasks,            \* the in-memory Progress Set
    processed_comments,  \* texts of the loaded Progress Set
    df,                  \* the remaining rows
    i,                   \* offset of the current batch in df
    comments_to_analyze, \* texts of the current batch
    attempt,             \* loop variable of get_sentiments_from_gemini
    calls,               \* remote calls made for the current batch
    outstanding,         \* remote calls started and not yet returned
    response,            \* the response being examined
    sentiments,          \* what get_sentiments_from_gemini returned
    k,                   \* pairs of the zip already appended
    delays,              \* backoff sleeps taken for the current batch
    committed,           \* len(ls_tasks) when the last batch finished
    saves,               \* calls of save_progress
    save_result          \* none, ok, failed

vars == <<pc, exit, raised, api_key, input_csv, prior_file, file, batch_size, limit, start_from,
          end_at, ls_tasks, processed_comments, df, i, comments_to_analyze, attempt,
          calls, outstanding, response, sentiments, k, delays, committed, saves,
          save_result>>

args == <<api_key, input_csv, prior_file, batch_size, limit, start_from, end_at>>
client == <<attempt, calls, outstanding, response, sentiments, delays>>

OptIdx == {NONE} \cup 0..MaxIdx
InputFiles == {[exists |-> FALSE, rows |-> <<>>]}
              \cup {[exists |-> TRUE, rows |-> s] : s \in SeqsUpTo(SourceRows, MaxSrc)}

ApiKeys == {"", "key"}

PreLoopPcs == {"configure", "load", "read", "slice", "filter"}
ClientPcs == {"call", "incall", "backoff"}
OwnPcs == {"loop", "got", "append", "pace"}
LoopPcs == OwnPcs \cup ClientPcs

Init ==
    /\ pc = "main"
    /\ exit = "none"
    /\ raised = "none"
    /\ api_key \in ApiKeys
    /\ input_csv \in InputFiles
    /\ prior_file \in PriorFiles
    /\ file = prior_file
    /\ batch_size \in 1..MaxBatch
    /\ limit \in OptIdx
    /\ start_from \in OptIdx
    /\ end_at \in OptIdx
    /\ ls_tasks = <<>>
    /\ processed_comments = {}
    /\ df = <<>>
    /\ i = 0
    /\ comments_to_analyze = <<>>
    /\ attempt = 0
    /\ calls = 0
    /\ outstanding = 0
    /\ response = NoResponse
    /\ sentiments = None_
    /\ k = 0
    /\ delays = <<>>
    /\ committed = 0
    /\ saves = 0
    /\ save_result = "none"

\* --------------------------------------------------------- analyze_comments
\* analyze_comments returns or lets an exception out: its locals are gone
FrameGone ==
    /\ ls_tasks' = <<>>
    /\ processed_comments' = {}
    /\ df' = <<>>
    /\ i' = 0
    /\ comments_to_analyze' = <<>>
    /\ sentiments' = None_
    /\ k' = 0

\* lines 208-211: without a key analyze_comments is not called
Main ==
    /\ pc = "main"
    /\ pc' = IF api_key = "" THEN "terminated" ELSE "configure"
    /\ UNCHANGED <<exit, raised, args, file, ls_tasks, processed_comments, df, i,
                   comments_to_analyze, client, k, committed, saves, save_result>>

\* lines 106-107 and configure_gemini, lines 11-19: genai.configure succeeds, or
\* raises and configure_gemini returns False
ConfigureGemini ==
    /\ pc = "configure"
    /\ \E configured \in BOOLEAN :
          pc' = IF configured THEN "load" ELSE "terminated"
    /\ UNCHANGED <<exit, raised, args, file, ls_tasks, processed_comments, df, i,
                   comments_to_analyze, client, k, committed, saves, save_result>>

\* lines 109-111.  An exception let out by load_progress, or raised by
\* task['data']['text'] on an item that is no task, leaves analyze_comments.
LoadProgress ==
    /\ pc = "load"
    /\ LET loaded == load_progress(file)
           shaped == \A j \in 1..Len(loaded.value) : IsTask(loaded.value[j])
       IN  IF loaded.raised = "none" /\ shaped
           THEN /\ ls_tasks' = loaded.value
                /\ processed_comments' = TextsOf(ls_tasks')
                /\ committed' = Len(ls_tasks')
                /\ pc' = "read"
                /\ UNCHANGED <<raised, df, i, comments_to_analyze, sentiments, k>>
           ELSE /\ raised' = IF loaded.raised # "none" THEN loaded.raised ELSE "TypeError"
                /\ pc' = "terminated"
                /\ FrameGone
                /\ UNCHANGED committed
    /\ UNCHANGED <<exit, args, file, attempt, calls, outstanding, response, delays,
                   saves, save_result>>

\* lines 113-124
\* mutant of ReadCsv: a missing source file leads to the final save
ReadCsvSaving ==
    /\ pc = "read"
    /\ IF input_csv.exists
       THEN /\ df' = Clean(read_csv(input_csv.rows))
            /\ pc' = "slice"
       ELSE /\ df' = df
            /\ pc' = "finally"
    /\ UNCHANGED <<exit, raised, args, file, ls_tasks, processed_comments, i,
                   comments_to_analyze, client, k, committed, saves, save_result>>

ReadCsv ==
    /\ pc = "read"
    /\ IF input_csv.exists
       THEN /\ df' = Clean(read_csv(input_csv.rows))
            /\ pc' = "slice"
            /\ UNCHANGED <<ls_tasks, processed_comments, i, comments_to_analyze,
                           sentiments, k>>
       ELSE /\ pc' = "terminated"
            /\ FrameGone
    /\ UNCHANGED <<exit, raised, args, file, attempt, calls, outstanding, response,
                   delays, committed, saves, save_result>>

\* lines 126-131
SliceRange ==
    /\ pc = "slice"
    /\ df' = IF start_from # NONE \/ end_at # NONE
             THEN ILoc(df, OrElse(start_from, 0), OrElse(end_at, Len(df)))
             ELSE df
    /\ pc' = "filter"
    /\ UNCHANGED <<exit, raised, args, file, ls_tasks, processed_comments, i,
                   comments_to_analyze, client, k, committed, saves, save_result>>

\* mutant of Remaining: the dedup filter of line 135 is left out
RemainingUnfiltered(d) ==
    IF ~Falsy(limit) /\ ~(~Falsy(start_from) \/ ~Falsy(end_at))
    THEN DfHead(d, limit)
    ELSE d

\* mutant of Remaining: the cap is taken before the dedup filter
RemainingCapFirst(d) ==
    LET capped == IF ~Falsy(limit) /\ ~(~Falsy(start_from) \/ ~Falsy(end_at))
                  THEN DfHead(d, limit)
                  ELSE d
    IN  SelectSeq(capped, LAMBDA r : r.Comment \notin processed_comments)

\* lines 135, 139-140: the rows left to process
Remaining(d) ==
    LET fresh == SelectSeq(d, LAMBDA r : r.Comment \notin processed_comments)
    IN  IF ~Falsy(limit) /\ ~(~Falsy(start_from) \/ ~Falsy(end_at))
        THEN DfHead(fresh, limit)
        ELSE fresh

\* mutant of Filter: the early return goes through save_progress
FilterSaving ==
    /\ pc = "filter"
    /\ IF Remaining(df) = <<>>
       THEN /\ pc' = "terminated"
            /\ saves' = saves + 1
            /\ save_result' = "ok"
            /\ file' = TasksFile(ls_tasks)
            /\ FrameGone
       ELSE /\ df' = Remaining(df)
            /\ pc' = "loop"
            /\ UNCHANGED <<ls_tasks, processed_comments, i, comments_to_analyze,
                           sentiments, k, file, saves, save_result>>
    /\ UNCHANGED <<exit, raised, args, attempt, calls, outstanding, response,
                   delays, committed>>

\* lines 133-146
Filter ==
    /\ pc = "filter"
    /\ IF Remaining(df) = <<>>
       THEN /\ pc' = "terminated"
            /\ FrameGone
       ELSE /\ df' = Remaining(df)
            /\ pc' = "loop"
            /\ UNCHANGED <<ls_tasks, processed_comments, i, comments_to_analyze,
                           sentiments, k>>
    /\ UNCHANGED <<exit, raised, args, file, attempt, calls, outstanding, response,
                   delays, committed, saves, save_result>>

\* mutant of LoopHead: a last batch shorter than batch_size is not attempted
LoopHeadSkippingLast ==
    /\ pc = "loop"
    /\ IF i + batch_size <= Len(df)
       THEN /\ comments_to_analyze' = Comments(ILoc(df, i, i + batch_size))
            /\ attempt' = 0
            /\ calls' = 0
            /\ delays' = <<>>
            /\ sentiments' = None_
            /\ k' = 0
            /\ pc' = "call"
            /\ exit' = exit
       ELSE /\ pc' = "finally"
            /\ exit' = "normal"
            /\ UNCHANGED <<comments_to_analyze, attempt, calls, delays, sentiments, k>>
    /\ UNCHANGED <<raised, args, file, ls_tasks, processed_comments, df, i, outstanding,
                   response, committed, saves, save_result>>

\* lines 153-156: the next batch, or the end of the loop
LoopHead ==
    /\ pc = "loop"
    /\ IF i < Len(df)
       THEN /\ comments_to_analyze' = Comments(ILoc(df, i, i + batch_size))
            /\ attempt' = 0
            /\ calls' = 0
            /\ delays' = <<>>
            /\ sentiments' = None_
            /\ k' = 0
            /\ pc' = "call"
            /\ exit' = exit
       ELSE /\ pc' = "finally"
            /\ exit' = "normal"
            /\ UNCHANGED <<comments_to_analyze, attempt, calls, delays, sentiments, k>>
    /\ UNCHANGED <<raised, args, file, ls_tasks, processed_comments, df, i, outstanding,
                   response, committed, saves, save_result>>

\* ----------------------------------------------- get_sentiments_from_gemini
\* line 45: the remote call starts
CallStart ==
    /\ pc = "call"
    /\ calls' = calls + 1
    /\ outstanding' = outstanding + 1
    /\ pc' = "incall"
    /\ UNCHANGED <<exit, raised, args, file, ls_tasks, processed_comments, df, i,
                   comments_to_analyze, attempt, response, sentiments, k, delays,
                   committed, saves, save_result>>

\* mutant of Attempt: a list of the right length is kept but the loop goes on to
\* the sleep and the next attempt
AttemptRetrying(r) ==
    /\ pc = "incall"
    /\ outstanding' = outstanding - 1
    /\ IF Outcome(r, Len(comments_to_analyze)) = "success"
       THEN sentiments' = Labels(CleanResponse(r).elems) /\ pc' = "backoff"
       ELSE sentiments' = sentiments /\ pc' = "backoff"
    /\ UNCHANGED <<exit, raised, args, file, ls_tasks, processed_comments, df, i,
                   comments_to_analyze, attempt, calls, k, delays, committed, saves,
                   save_result>>

\* mutant of Attempt: the attempt goes on without waiting for the call to end
AttemptNotAwaited(r) ==
    /\ pc = "incall"
    /\ outstanding' = outstanding
    /\ IF Outcome(r, Len(comments_to_analyze)) = "success"
       THEN sentiments' = Labels(CleanResponse(r).elems) /\ pc' = "got"
       ELSE sentiments' = sentiments /\ pc' = "backoff"
    /\ UNCHANGED <<exit, raised, args, file, ls_tasks, processed_comments, df, i,
                   comments_to_analyze, attempt, calls, k, delays, committed, saves,
                   save_result>>

\* mutant of Attempt: an exception raised by the remote call is let out
AttemptRaising(r) ==
    /\ pc = "incall"
    /\ outstanding' = outstanding - 1
    /\ IF Outcome(r, Len(comments_to_analyze)) = "success"
       THEN sentiments' = Labels(CleanResponse(r).elems) /\ pc' = "got" /\ raised' = raised
       ELSE IF r.kind = "raise"
       THEN sentiments' = sentiments /\ pc' = "terminated" /\ raised' = "Exception"
       ELSE sentiments' = sentiments /\ pc' = "backoff" /\ raised' = raised
    /\ UNCHANGED <<exit, args, file, ls_tasks, processed_comments, df, i,
                   comments_to_analyze, attempt, calls, k, delays, committed, saves,
                   save_result>>

\* lines 45-62: the remote call returns or raises response r, and the attempt
\* returns the list or falls through to the backoff sleep
Attempt(r) ==
    /\ pc = "incall"
    /\ outstanding' = outstanding - 1
    /\ IF Outcome(r, Len(comments_to_analyze)) = "success"
       THEN sentiments' = Labels(CleanResponse(r).elems) /\ pc' = "got"
       ELSE sentiments' = sentiments /\ pc' = "backoff"
    /\ UNCHANGED <<exit, raised, args, file, ls_tasks, processed_comments, df, i,
                   comments_to_analyze, attempt, calls, k, delays, committed, saves,
                   save_result>>

\* one attempt inside a run: the response is dropped once examined
CallReturn ==
    /\ \E r \in Responses(Len(comments_to_analyze)) : Attempt(r)
    /\ response' = NoResponse

\* one attempt of a call seen on its own: the response examined is kept
CallReturnObserved ==
    \E r \in Responses(Len(comments_to_analyze)) : Attempt(r) /\ response' = r

\* mutant of Backoff: the sleep doubles with every attempt (3, 6, 12)
BackoffDoubling ==
    /\ pc = "backoff"
    /\ delays' = Append(delays, BackoffUnit * (2 ^ attempt))
    /\ attempt' = attempt + 1
    /\ IF attempt' < MaxAttempts
       THEN sentiments' = sentiments /\ pc' = "call"
       ELSE sentiments' = None_ /\ pc' = "got"
    /\ UNCHANGED <<exit, raised, args, file, ls_tasks, processed_comments, df, i,
                   comments_to_analyze, calls, outstanding, response, k, committed,
                   saves, save_result>>

\* mutant of Backoff: the loop runs one attempt too many
BackoffOneMore ==
    /\ pc = "backoff"
    /\ delays' = Append(delays, BackoffUnit * (attempt + 1))
    /\ attempt' = attempt + 1
    /\ IF attempt' <= MaxAttempts
       THEN sentiments' = sentiments /\ pc' = "call"
       ELSE sentiments' = None_ /\ pc' = "got"
    /\ UNCHANGED <<exit, raised, args, file, ls_tasks, processed_comments, df, i,
                   comments_to_analyze, calls, outstanding, response, k, committed,
                   saves, save_result>>

\* lines 49-50 and 63-65: sleep 3 * (attempt + 1), then retry or give up
Backoff ==
    /\ pc = "backoff"
    /\ delays' = Append(delays, BackoffUnit * (attempt + 1))
    /\ attempt' = attempt + 1
    /\ IF attempt' < MaxAttempts
       THEN sentiments' = sentiments /\ pc' = "call"
       ELSE sentiments' = None_ /\ pc' = "got"
    /\ UNCHANGED <<exit, raised, args, file, ls_tasks, processed_comments, df, i,
                   comments_to_analyze, calls, outstanding, response, k, committed,
                   saves, save_result>>

\* ------------------------------------------------ analyze_comments, the loop
\* mutant of Dispatch: a failed batch ends the loop (break)
DispatchHalting ==
    /\ pc = "got"
    /\ pc' = IF Truthy(sentiments) THEN "append" ELSE "finally"
    /\ exit' = IF Truthy(sentiments) THEN exit ELSE "normal"
    /\ attempt' = 0
    /\ calls' = 0
    /\ delays' = <<>>
    /\ UNCHANGED <<raised, args, file, ls_tasks, processed_comments, df, i,
                   comments_to_analyze, outstanding, response, sentiments, k, committed,
                   saves, save_result>>

\* mutant of Dispatch: an exhausted batch goes on to the next batch unpaced
DispatchUnpaced ==
    /\ pc = "got"
    /\ IF Truthy(sentiments)
       THEN pc' = "append" /\ i' = i
       ELSE pc' = "loop" /\ i' = i + batch_size
    /\ attempt' = 0
    /\ calls' = 0
    /\ delays' = <<>>
    /\ UNCHANGED <<exit, raised, args, file, ls_tasks, processed_comments, df,
                   comments_to_analyze, outstanding, response, sentiments, k, committed,
                   saves, save_result>>

\* lines 156, 158, 164-165: the call has returned (its frame is gone); append or skip
Dispatch ==
    /\ pc = "got"
    /\ pc' = IF Truthy(sentiments) THEN "append" ELSE "pace"
    /\ attempt' = 0
    /\ calls' = 0
    /\ delays' = <<>>
    /\ UNCHANGED <<exit, raised, args, file, ls_tasks, processed_comments, df, i,
                   comments_to_analyze, outstanding, response, sentiments, k, committed,
                   saves, save_result>>

\* zip(comments_to_analyze, sentiments) stops at the shorter one
ZipLen == Min(Len(comments_to_analyze), Len(sentiments.vals))

\* mutant of AppendItem: the new Task is put in front of the Progress Set
AppendItemFront ==
    /\ pc = "append"
    /\ k' = k + 1
    /\ ls_tasks' =
           <<format_for_label_studio(comments_to_analyze[k'], Validate(sentiments.vals[k']),
                                     ModelName)>> \o ls_tasks
    /\ IF k' = ZipLen
       THEN committed' = Len(ls_tasks') /\ pc' = "pace"
       ELSE committed' = committed /\ pc' = "append"
    /\ UNCHANGED <<exit, raised, args, file, processed_comments, df, i,
                   comments_to_analyze, client, saves, save_result>>

\* mutant of AppendItem: the comments of the batch are taken last to first
AppendItemReversed ==
    /\ pc = "append"
    /\ k' = k + 1
    /\ ls_tasks' = Append(ls_tasks,
           format_for_label_studio(comments_to_analyze[ZipLen + 1 - k'],
                                   Validate(sentiments.vals[k']), ModelName))
    /\ IF k' = ZipLen
       THEN committed' = Len(ls_tasks') /\ pc' = "pace"
       ELSE committed' = committed /\ pc' = "append"
    /\ UNCHANGED <<exit, raised, args, file, processed_comments, df, i,
                   comments_to_analyze, client, saves, save_result>>

\* lines 159-163: one turn of the zip loop
AppendItem ==
    /\ pc = "append"
    /\ k' = k + 1
    /\ ls_tasks' = Append(ls_tasks,
           format_for_label_studio(comments_to_analyze[k'], Validate(sentiments.vals[k']),
                                   ModelName))
    /\ IF k' = ZipLen
       THEN committed' = Len(ls_tasks') /\ pc' = "pace"
       ELSE committed' = committed /\ pc' = "append"
    /\ UNCHANGED <<exit, raised, args, file, processed_comments, df, i,
                   comments_to_analyze, client, saves, save_result>>

\* mutant of Pace: the Progress Set is written after every batch
PaceSaving ==
    /\ pc = "pace"
    /\ i' = i + batch_size
    /\ file' = TasksFile(ls_tasks)
    /\ pc' = "loop"
    /\ UNCHANGED <<exit, raised, args, ls_tasks, processed_comments, df,
                   comments_to_analyze, client, k, committed, saves, save_result>>

\* mutant of Pace: the loop index advances by one record, not by one batch
PaceByOne ==
    /\ pc = "pace"
    /\ i' = i + 1
    /\ pc' = "loop"
    /\ UNCHANGED <<exit, raised, args, file, ls_tasks, processed_comments, df,
                   comments_to_analyze, client, k, committed, saves, save_result>>

\* line 168 and the step of range(0, len(df), batch_size)
Pace ==
    /\ pc = "pace"
    /\ i' = i + batch_size
    /\ pc' = "loop"
    /\ UNCHANGED <<exit, raised, args, file, ls_tasks, processed_comments, df,
                   comments_to_analyze, client, k, committed, saves, save_result>>

\* mutant of Interrupt: a Ctrl-C during the remote call is caught by the call's
\* own handler and retried like any other failed attempt
InterruptAbsorbed ==
    /\ pc \in LoopPcs
    /\ exit' = "interrupt"
    /\ outstanding' = 0
    /\ response' = NoResponse
    /\ IF pc = "incall"
       THEN pc' = "backoff" /\ UNCHANGED <<attempt, calls, delays>>
       ELSE pc' = "finally" /\ attempt' = 0 /\ calls' = 0 /\ delays' = <<>>
    /\ UNCHANGED <<raised, args, file, ls_tasks, processed_comments, df, i,
                   comments_to_analyze, sentiments, k, committed, saves, save_result>>

\* mutant of Interrupt: no finally clause, the interrupt ends the run unsaved
InterruptUnsaved ==
    /\ pc \in LoopPcs
    /\ exit' = "interrupt"
    /\ raised' = "KeyboardInterrupt"
    /\ attempt' = 0
    /\ calls' = 0
    /\ delays' = <<>>
    /\ outstanding' = 0
    /\ response' = NoResponse
    /\ pc' = "terminated"
    /\ FrameGone
    /\ UNCHANGED <<args, file, committed, saves, save_result>>

\* lines 170-171: Ctrl-C anywhere inside the try block, get_sentiments_from_gemini
\* included (its handlers catch Exception, which KeyboardInterrupt is not); the
\* frame of a call in progress is unwound
Interrupt ==
    /\ pc \in LoopPcs
    /\ exit' = "interrupt"
    /\ attempt' = 0
    /\ calls' = 0
    /\ delays' = <<>>
    /\ outstanding' = 0
    /\ response' = NoResponse
    /\ pc' = "finally"
    /\ UNCHANGED <<raised, args, file, ls_tasks, processed_comments, df, i,
                   comments_to_analyze, sentiments, k, committed, saves, save_result>>

\* mutant of LoopError: the handler of line 172 saves as well, before the finally
\* clause does
LoopErrorSaving ==
    /\ pc \in OwnPcs
    /\ exit' = "error"
    /\ attempt' = 0
    /\ calls' = 0
    /\ delays' = <<>>
    /\ saves' = saves + 1
    /\ save_result' = "ok"
    /\ file' = TasksFile(ls_tasks)
    /\ pc' = "finally"
    /\ UNCHANGED <<raised, args, ls_tasks, processed_comments, df, i,
                   comments_to_analyze, outstanding, response, sentiments, k, committed>>

\* lines 172-173: any other exception raised inside the try block; inside
\* get_sentiments_from_gemini every Exception is caught (lines 59-62), so it
\* is raised by the loop's own statements
LoopError ==
    /\ pc \in OwnPcs
    /\ exit' = "error"
    /\ attempt' = 0
    /\ calls' = 0
    /\ delays' = <<>>
    /\ pc' = "finally"
    /\ UNCHANGED <<raised, args, file, ls_tasks, processed_comments, df, i,
                   comments_to_analyze, outstanding, response, sentiments, k, committed,
                   saves, save_result>>

\* Ctrl-C before the try block: nothing catches it
InterruptEarly ==
    /\ pc \in PreLoopPcs
    /\ raised' = "KeyboardInterrupt"
    /\ pc' = "terminated"
    /\ FrameGone
    /\ UNCHANGED <<exit, args, file, attempt, calls, outstanding, response, delays,
                   committed, saves, save_result>>

\* save_progress, lines 80-88: the write succeeds, or open() fails and leaves the
\* file as it was, or the write fails part-way and leaves it cut short; the
\* IOError is caught and printed.
save_progress(tasks, result) ==
    /\ saves' = saves + 1
    /\ save_result' = IF result = "ok" THEN "ok" ELSE "failed"
    /\ file' = CASE result = "ok" -> TasksFile(tasks)
                 [] result = "open_failed" -> file
                 [] OTHER -> CorruptFile

\* mutant of FinalSave: an output file that could not be loaded is not overwritten
FinalSavePreserving ==
    /\ pc = "finally"
    /\ saves' = saves + 1
    /\ save_result' = "ok"
    /\ file' = IF prior_file.kind = "text" /\ ~HoldsTasks(prior_file)
               THEN file
               ELSE TasksFile(ls_tasks)
    /\ pc' = "terminated"
    /\ FrameGone
    /\ UNCHANGED <<exit, raised, args, attempt, calls, outstanding, response, delays,
                   committed>>

\* lines 174-176
FinalSave ==
    /\ pc = "finally"
    /\ \E result \in {"ok", "open_failed", "write_failed"} : save_progress(ls_tasks, result)
    /\ pc' = "terminated"
    /\ FrameGone
    /\ UNCHANGED <<exit, raised, args, attempt, calls, outstanding, response, delays,
                   committed>>

\* the process is killed (SIGKILL, power loss): no handler runs, the memory of
\* the process is gone and the output file stays as it is
Kill ==
    /\ pc \in {"main"} \cup PreLoopPcs \cup LoopPcs \cup {"finally"}
    /\ pc' = "killed"
    /\ FrameGone
    /\ attempt' = 0
    /\ calls' = 0
    /\ delays' = <<>>
    /\ outstanding' = 0
    /\ response' = NoResponse
    /\ UNCHANGED <<exit, raised, args, file, committed, saves, save_result>>

Next ==
    \/ Main
    \/ ConfigureGemini
    \/ LoadProgress
    \/ ReadCsv
    \/ SliceRange
    \/ Filter
    \/ LoopHead
    \/ CallStart
    \/ CallReturn
    \/ Backoff
    \/ Dispatch
    \/ AppendItem
    \/ Pace
    \/ Interrupt
    \/ LoopError
    \/ InterruptEarly
    \/ FinalSave
    \/ Kill

Spec == Init /\ [][Next]_vars

\* --------------------------- get_sentiments_from_gemini called on its own
\* One call with a batch of 1..MaxBatch comments, from its first attempt to its
\* return; the response of each attempt stays visible in `response`.
InitClient ==
    /\ pc = "call"
    /\ exit = "none"
    /\ raised = "none"
    /\ api_key = "key"
    /\ input_csv = [exists |-> FALSE, rows |-> <<>>]
    /\ prior_file = MissingFile
    /\ file = MissingFile
    /\ batch_size \in 1..MaxBatch
    /\ limit = NONE
    /\ start_from = NONE
    /\ end_at = NONE
    /\ ls_tasks = <<>>
    /\ processed_comments = {}
    /\ df = <<>>
    /\ i = 0
    /\ comments_to_analyze \in [1..batch_size -> Texts]
    /\ attempt = 0
    /\ calls = 0
    /\ outstanding = 0
    /\ response = NoResponse
    /\ sentiments = None_
    /\ k = 0
    /\ delays = <<>>
    /\ committed = 0
    /\ saves = 0
    /\ save_result = "none"

NextClient ==
    \/ CallStart
    \/ CallReturnObserved
    \/ Backoff

SpecClient == InitClient /\ [][NextClient]_vars

\* --------------------------------------- reading and cleaning on their own
\* analyze_comments about to read a source whose rows need cleaning
InitClean ==
    /\ pc = "read"
    /\ exit = "none"
    /\ raised = "none"
    /\ api_key = "key"
    /\ input_csv \in {[exists |-> TRUE, rows |-> s] : s \in SeqsUpTo(RawRows, MaxSrc + 1)}
    /\ prior_file = MissingFile
    /\ file = MissingFile
    /\ batch_size = 1
    /\ limit = NONE
    /\ start_from = NONE
    /\ end_at = NONE
    /\ ls_tasks = <<>>
    /\ processed_comments = {}
    /\ df = <<>>
    /\ i = 0
    /\ comments_to_analyze = <<>>
    /\ attempt = 0
    /\ calls = 0
    /\ outstanding = 0
    /\ response = NoResponse
    /\ sentiments = None_
    /\ k = 0
    /\ delays = <<>>
    /\ committed = 0
    /\ saves = 0
    /\ save_result = "none"

NextClean == ReadCsv

SpecClean == InitClean /\ [][NextClean]_vars

\* ------------------------------------------------------------ a second run
\* lines 178-211: the program is started again with the same arguments after a
\* first run that began without an output file, went through its loop and left
\* a file behind; the new process finds that file as its prior output.
Rerun ==
    /\ pc = "terminated"
    /\ exit = "normal"
    /\ prior_file = MissingFile
    /\ file # MissingFile
    /\ prior_file' = file
    /\ pc' = "main"
    /\ exit' = "none"
    /\ raised' = "none"
    /\ committed' = 0
    /\ saves' = 0
    /\ save_result' = "none"
    /\ FrameGone
    /\ UNCHANGED <<api_key, input_csv, batch_size, limit, start_from, end_at, file,
                   attempt, calls, outstanding, response, delays>>

\* the first run: a key, an existing source, no output file yet, no cap
InitRerun ==
    /\ pc = "main"
    /\ exit = "none"
    /\ raised = "none"
    /\ api_key = "key"
    /\ input_csv \in {f \in InputFiles : f.exists}
    /\ prior_file = MissingFile
    /\ file = MissingFile
    /\ batch_size \in 1..MaxBatch
    /\ limit = NONE
    /\ start_from \in OptIdx
    /\ end_at \in OptIdx
    /\ ls_tasks = <<>>
    /\ processed_comments = {}
    /\ df = <<>>
    /\ i = 0
    /\ comments_to_analyze = <<>>
    /\ attempt = 0
    /\ calls = 0
    /\ outstanding = 0
    /\ response = NoResponse
    /\ sentiments = None_
    /\ k = 0
    /\ delays = <<>>
    /\ committed = 0
    /\ saves = 0
    /\ save_result = "none"

NextRerun ==
    \/ Next
    \/ Rerun

SpecRerun == InitRerun /\ [][NextRerun]_vars

\* ----------------------------------------------------------- the batch loop
\* lines 146-151: the run is about to enter the loop; nothing was loaded, no
\* range and no cap were given, and every row of the source is left
InitBatches ==
    /\ pc = "loop"
    /\ exit = "none"
    /\ raised = "none"
    /\ api_key = "key"
    /\ df \in SeqsUpTo(SourceRows, MaxSrc + 1) \ {<<>>}
    /\ input_csv = [exists |-> TRUE, rows |-> df]
    /\ prior_file = MissingFile
    /\ file = MissingFile
    /\ batch_size \in 1..MaxBatch
    /\ limit = NONE
    /\ start_from = NONE
    /\ end_at = NONE
    /\ ls_tasks = <<>>
    /\ processed_comments = {}
    /\ i = 0
    /\ comments_to_analyze = <<>>
    /\ attempt = 0
    /\ calls = 0
    /\ outstanding = 0
    /\ response = NoResponse
    /\ sentiments = None_
    /\ k = 0
    /\ delays = <<>>
    /\ committed = 0
    /\ saves = 0
    /\ save_result = "none"

NextBatches ==
    \/ LoopHead
    \/ CallStart
    \/ CallReturn
    \/ Backoff
    \/ Dispatch
    \/ AppendItem
    \/ Pace
    \/ Interrupt
    \/ LoopError
    \/ FinalSave
    \/ Kill

SpecBatches == InitBatches /\ [][NextBatches]_vars

\* ------------------------------------------------------ an undisturbed run
\* the steps of a run that is neither interrupted nor killed and in which no
\* statement of the loop body raises; the program is sequential, so its next
\* step is always taken, and a remote call in progress returns or raises
NextLive ==
    \/ Main
    \/ ConfigureGemini
    \/ LoadProgress
    \/ ReadCsv
    \/ SliceRange
    \/ Filter
    \/ LoopHead
    \/ CallStart
    \/ CallReturn
    \/ Backoff
    \/ Dispatch
    \/ AppendItem
    \/ Pace
    \/ FinalSave

SpecLive == Init /\ [][NextLive]_vars /\ WF_vars(NextLive)

\* ------------------------------------------------------------------ claims
\* the Progress Set loaded at the start of the run, and its texts
Loaded == IF HoldsTasks(prior_file) THEN FileTasks(prior_file) ELSE <<>>
LoadedTexts == TextsOf(Loaded)
RangeGiven == start_from # NONE \/ end_at # NONE
AllValid(tasks) == \A j \in 1..Len(tasks) : tasks[j].label \in valid_labels
SourceTexts == LET d == Clean(read_csv(input_csv.rows)) IN {d[j].Comment : j \in 1..Len(d)}
Count(tasks, t) == Cardinality({j \in 1..Len(tasks) : tasks[j].text = t})

\* C1: no record whose text is in the Progress Set loaded at the start of the run
\* is submitted to get_sentiments_from_gemini, whatever the prior output, the
\* source, the range and the cap.
C1_LoadedTextNeverSubmitted ==
    pc \in ClientPcs =>
        \A j \in 1..Len(comments_to_analyze) : comments_to_analyze[j] \notin LoadedTexts

\* C1 witness: a batch is with the remote model in a run whose source holds a
\* text of the loaded Progress Set, under a range or a cap.
C1_Witness ==
    /\ pc = "incall"
    /\ \E j \in 1..Len(input_csv.rows) : input_csv.rows[j].Comment \in LoadedTexts
    /\ (RangeGiven \/ limit # NONE)

\* C2 (as claimed): with a well-formed prior output, no range and no cap, and
\* every batch classified, the file written at the end holds exactly one Task per
\* prior text and exactly one per source text not in the prior output.
C2_ResumeIdempotence ==
    [][ ( /\ pc = "finally" /\ pc' = "terminated"
          /\ exit = "normal"
          /\ save_result' = "ok"
          /\ ~RangeGiven
          /\ limit = NONE
          /\ (prior_file = MissingFile \/ HoldsTasks(prior_file))
          /\ AllValid(Loaded)
          /\ \A t \in LoadedTexts : Count(Loaded, t) = 1
          /\ Len(ls_tasks) = Len(Loaded) + Len(df) )
        => /\ HoldsTasks(file')
           /\ \A t \in Texts :
                Count(FileTasks(file'), t) =
                    IF t \in LoadedTexts \cup SourceTexts THEN 1 ELSE 0 ]_vars

C4_SaveOnEveryExit ==
    [][ /\ (pc \in LoopPcs /\ pc' \notin LoopPcs) => pc' \in {"finally", "killed"}
        /\ (pc = "finally" /\ pc' # "killed") =>
              /\ pc' = "terminated"
              /\ saves' = saves + 1
              /\ raised' = "none"
              /\ (file' = TasksFile(ls_tasks) \/ save_result' = "failed")
        /\ (pc' = "terminated" /\ exit' # "none") => pc = "finally" ]_vars

\* C4 witness: the run ended after a Ctrl-C in the loop, its save failed, and
\* nothing was raised.
C4_Witness ==
    /\ pc = "terminated"
    /\ exit = "interrupt"
    /\ save_result = "failed"
    /\ raised = "none"

\* C5 (as claimed): after a cancellation, the file written at the end holds the
\* loaded Tasks followed by exactly the Tasks of the batches that had completed.
C5_CancellationSafety ==
    (pc = "terminated" /\ exit = "interrupt" /\ save_result = "ok") =>
        /\ HoldsTasks(file)
        /\ Len(FileTasks(file)) = committed
        /\ SubSeq(FileTasks(file), 1, Len(Loaded)) = Loaded

\* C6 (as claimed): the file written at the end holds, of the batch the run was
\* in when it was interrupted, a Task for every record or for none.
C6_BatchAtomicity ==
    [][ (pc = "finally" /\ pc' = "terminated" /\ save_result' = "ok") =>
            LET extra == Len(FileTasks(file')) - committed
            IN  extra = 0 \/ extra = Len(comments_to_analyze) ]_vars

\* C7: when get_sentiments_from_gemini returns, it has called the remote model
\* between 1 and 3 times; every failed attempt used up one call; it returns None
\* exactly when 3 attempts failed; and nothing was raised into the caller.
C7_AttemptsBounded ==
    /\ pc = "backoff" => calls = attempt + 1
    /\ pc = "got" =>
          /\ calls >= 1 /\ calls <= 3
          /\ sentiments = None_ <=> (attempt = 3 /\ calls = 3)
          /\ sentiments.ok => calls = attempt + 1
          /\ exit = "none" /\ raised = "none"

\* C7 witness: the call returned None after three calls.
C7_Witness ==
    pc = "got" /\ sentiments = None_ /\ calls = 3

\* C8: a batch whose attempts all failed adds no Task, and unless the run is
\* interrupted, hit by an error or killed, the loop goes on to the pacing sleep
\* and then to the next batch in order.
C8_ExhaustedBatchSkipped ==
    [][ LET stopped == exit' \in {"interrupt", "error"} \/ pc' = "killed" IN
        /\ (pc = "got" /\ sentiments = None_ /\ ~stopped) =>
              (pc' = "pace" /\ ls_tasks' = ls_tasks /\ Len(ls_tasks) = committed)
        /\ (pc = "pace" /\ sentiments = None_ /\ ~stopped) =>
              (pc' = "loop" /\ i' = i + batch_size /\ ls_tasks' = ls_tasks)
        /\ (pc = "loop" /\ i < Len(df) /\ ~stopped) =>
              (pc' = "call" /\ comments_to_analyze' = Comments(ILoc(df, i, i + batch_size)))
      ]_vars

\* C8 witness: a batch after the first is with the remote model although no
\* batch before it added a Task.
C8_Witness ==
    pc = "incall" /\ i > 0 /\ Len(ls_tasks) = Len(Loaded)

\* C9: a list returned by get_sentiments_from_gemini is the array the response
\* decoded to, and has one element per comment of the batch; no other response
\* makes the call return a list.
C9_SuccessIsArrayOfLengthN ==
    [][ (pc' = "got" /\ sentiments'.ok) =>
            /\ pc = "incall"
            /\ response'.kind = "text"
            /\ response'.fence # "open"
            /\ response'.body.kind = "array"
            /\ Len(response'.body.elems) = Len(comments_to_analyze)
            /\ sentiments'.vals = response'.body.elems ]_vars

\* C9 witness: the call returned a list for a batch of two comments, taken from
\* a fenced response, after an attempt that failed.
C9_Witness ==
    /\ pc = "got"
    /\ sentiments.ok
    /\ Len(comments_to_analyze) = 2
    /\ response.fence = "closed"
    /\ attempt > 0

\* C10 (as claimed): every Task of the Progress Set, in memory and in the file
\* written at the end, has a label among positive, negative and neutral.
C10_EveryLabelValid ==
    /\ AllValid(ls_tasks)
    /\ (pc = "terminated" /\ HoldsTasks(file)) => AllValid(FileTasks(file))

\* C10 (amended): every Task appended by the run has a valid label, and Tasks
\* loaded from the prior output are kept as they are: the whole Progress Set, in
\* memory and in the file, has valid labels if the prior output's Tasks have.
C10_AppendedLabelsValid ==
    /\ \A j \in 1..Len(ls_tasks) : j > Len(Loaded) => ls_tasks[j].label \in valid_labels
    /\ AllValid(Loaded) =>
          (AllValid(ls_tasks) /\ (HoldsTasks(file) => AllValid(FileTasks(file))))

\* C10 witness: a batch was appended whose response held an invalid element,
\* stored as neutral.
C10_Witness ==
    /\ pc = "pace"
    /\ sentiments.ok
    /\ \E j \in 1..Len(sentiments.vals) :
          /\ sentiments.vals[j] \notin valid_labels
          /\ ls_tasks[committed - Len(sentiments.vals) + j].label = "neutral"

\* C11: the Task appended for an element of the returned list carries that
\* element as its label if the element is exactly positive, negative or neutral,
\* and neutral for any other element, a value that is no string included; the
\* append raises nothing and leaves the loop running.
C11_LabelValidation ==
    [][ (pc = "append" /\ Len(ls_tasks') = Len(ls_tasks) + 1) =>
            LET sentiment == sentiments.vals[k + 1]
                stored == ls_tasks'[Len(ls_tasks')].label
            IN  /\ sentiment \in {"positive", "negative", "neutral"} => stored = sentiment
                /\ sentiment \notin {"positive", "negative", "neutral"} => stored = "neutral"
                /\ raised' = "none"
                /\ exit' = "none"
                /\ pc' \in {"append", "pace"} ]_vars

\* C11 witness: a batch of two was appended whose list held a null and a valid
\* label: the first Task is neutral, the second keeps its label.
C11_Witness ==
    /\ pc = "pace"
    /\ sentiments.ok
    /\ sentiments.vals = <<JsonNull, "positive">>
    /\ ls_tasks[Len(ls_tasks) - 1].label = "neutral"
    /\ ls_tasks[Len(ls_tasks)].label = "positive"
    /\ raised = "none"

\* s is t with some of its elements left out, the rest in t's order
RECURSIVE IsSubseq(_, _)
IsSubseq(s, t) ==
    IF s = <<>> THEN TRUE
    ELSE IF t = <<>> THEN FALSE
    ELSE IF Head(s) = Head(t) THEN IsSubseq(Tail(s), Tail(t))
    ELSE IsSubseq(s, Tail(t))

\* the texts of the Tasks the run has appended, in the order of the Progress Set
AppendedTexts ==
    [j \in 1..(Len(ls_tasks) - Len(Loaded)) |-> ls_tasks[Len(Loaded) + j].text]

\* C12: the records to process keep the order of the source; every batch is the
\* next batch_size of them; the Tasks appended so far are, in order, records that
\* come before the end of what has been processed; and the Tasks of the batch
\* being appended carry, position by position, the text of the batch and the
\* validated element of the returned list.
C12_Ordering ==
    pc \in LoopPcs =>
        /\ IsSubseq(Comments(df), Comments(input_csv.rows))
        /\ pc # "loop" => comments_to_analyze = Comments(ILoc(df, i, i + batch_size))
        /\ IsSubseq(AppendedTexts,
                    Comments(ILoc(df, 0, IF pc = "loop" THEN i ELSE i + k)))
        /\ (pc \in {"append", "pace"} /\ sentiments.ok) =>
              \A j \in 1..k :
                  LET task == ls_tasks[Len(ls_tasks) - k + j]
                      sentiment == sentiments.vals[j]
                  IN  /\ task.text = comments_to_analyze[j]
                      /\ task.label = IF sentiment \in valid_labels
                                      THEN sentiment ELSE "neutral"

\* C12 witness: the second batch of a source of two different texts has been
\* appended, and the appended texts are the source's, in its order.
C12_Witness ==
    /\ pc = "pace"
    /\ i > 0
    /\ sentiments.ok
    /\ Len(df) = 2
    /\ df[1].Comment # df[2].Comment
    /\ AppendedTexts = Comments(df)

\* the output file is there but cannot be read or parsed as JSON
Unparseable(f) ==
    \/ f.kind \in {"unreadable", "binary"}
    \/ f.kind = "text" /\ json_load(f.text).kind = "error"

\* C13 (as claimed): when the output file is missing, or is there but cannot be
\* read or parsed as JSON, load_progress returns an empty list and raises nothing,
\* and the run goes on to read the source with an empty Progress Set.
C13_LoadFailureIsFresh ==
    [][ ( /\ pc = "load"
          /\ (file.kind = "missing" \/ Unparseable(file))
          /\ pc' # "killed"
          /\ raised' # "KeyboardInterrupt" )
        => /\ load_progress(file) = Return(<<>>)
           /\ raised' = "none"
           /\ pc' = "read"
           /\ ls_tasks' = <<>>
           /\ processed_comments' = {} ]_vars

\* C14: load_progress applied to the file a successful save_progress(tasks) has
\* written returns tasks: the same Tasks in the same order, and raises nothing.
C14_RoundTrip ==
    [][ (pc = "finally" /\ pc' = "terminated" /\ save_result' = "ok") =>
            load_progress(file') = Return(ls_tasks) ]_vars

\* C14 witness: a file was written that holds a loaded Task followed by two
\* appended Tasks with different labels.
C14_Witness ==
    /\ pc = "terminated"
    /\ save_result = "ok"
    /\ Len(Loaded) = 1
    /\ Len(load_progress(file).value) = 3
    /\ load_progress(file).value[1] = Loaded[1]
    /\ load_progress(file).value[2].label # load_progress(file).value[3].label

\* C15: without a key analyze_comments is never entered, and without the source
\* file it is left when the file is found missing: in neither case is the remote
\* model called or save_progress run, and the output file stays as it was.
C15_ConfigurationError ==
    /\ api_key = "" => pc \in {"main", "terminated", "killed"}
    /\ ~input_csv.exists =>
          pc \in {"main", "configure", "load", "read", "terminated", "killed"}
    /\ (api_key = "" \/ ~input_csv.exists) =>
          /\ calls = 0
          /\ outstanding = 0
          /\ saves = 0
          /\ file = prior_file

\* C15 witness: a run with a key loaded a prior output of one Task and then
\* ended, nothing raised, because the source file is missing.
C15_Witness ==
    /\ pc = "terminated"
    /\ api_key = "key"
    /\ ~input_csv.exists
    /\ Len(Loaded) = 1
    /\ committed = 1
    /\ raised = "none"
    /\ file = prior_file

\* a response that is no list of n elements: the call raised, the response is
\* blocked, or its text does not decode to an array of length n
TransientError(r, n) ==
    \/ r.kind \in {"raise", "blocked"}
    \/ CleanResponse(r).kind # "array"
    \/ Len(CleanResponse(r).elems) # n

\* C16: an attempt whose response is a transient error raises nothing into the
\* caller and goes to the backoff sleep, which counts it as one failed attempt;
\* get_sentiments_from_gemini returns a list of one element per comment, or None.
C16_TransientErrorsAbsorbed ==
    [][ /\ (pc = "incall" /\ TransientError(response', Len(comments_to_analyze))) =>
              /\ pc' = "backoff"
              /\ raised' = "none"
              /\ exit' = "none"
              /\ sentiments' = sentiments
              /\ attempt' = attempt
        /\ pc = "backoff" =>
              /\ attempt' = attempt + 1
              /\ raised' = "none"
              /\ pc' \in {"call", "got"}
        /\ pc' = "got" =>
              /\ raised' = "none"
              /\ \/ sentiments' = None_
                 \/ /\ sentiments'.ok
                    /\ Len(sentiments'.vals) = Len(comments_to_analyze) ]_vars

\* C16 witness: the call returned None, nothing raised, after a third attempt in
\* which the remote call raised.
C16_Witness ==
    /\ pc = "got"
    /\ sentiments = None_
    /\ attempt = 3
    /\ response.kind = "raise"
    /\ raised = "none"

\* analyze_comments holds a Progress Set: load_progress has returned and the
\* function has not been left
Running(p) == p \in (PreLoopPcs \ {"configure", "load"}) \cup LoopPcs \cup {"finally"}

\* C17: from the load to the final save every step leaves the Progress Set as it
\* is or adds one Task at its end; the loaded Tasks stay its first Tasks; and the
\* file a successful final save writes begins with the loaded Tasks, in order.
C17_AppendOnly ==
    [][ /\ (Running(pc) /\ Running(pc')) =>
              \/ ls_tasks' = ls_tasks
              \/ /\ Len(ls_tasks') = Len(ls_tasks) + 1
                 /\ SubSeq(ls_tasks', 1, Len(ls_tasks)) = ls_tasks
        /\ Running(pc') =>
              /\ Len(ls_tasks') >= Len(Loaded)
              /\ SubSeq(ls_tasks', 1, Len(Loaded)) = Loaded
        /\ (pc = "finally" /\ pc' = "terminated" /\ save_result' = "ok") =>
              /\ HoldsTasks(file')
              /\ Len(FileTasks(file')) >= Len(Loaded)
              /\ SubSeq(FileTasks(file'), 1, Len(Loaded)) = Loaded ]_vars

\* C17 witness: a run that loaded one Task was interrupted after it had
\* appended one, and the file written holds the two.
C17_Witness ==
    /\ pc = "terminated"
    /\ exit = "interrupt"
    /\ save_result = "ok"
    /\ Len(Loaded) = 1
    /\ HoldsTasks(file)
    /\ Len(FileTasks(file)) = 2
    /\ FileTasks(file)[1] = Loaded[1]

\* C18 (as claimed): while a batch is with get_sentiments_from_gemini, none of
\* its texts is the text of a Task of the Progress Set as it then stands.
C18_BatchTextsAreNew ==
    pc \in ClientPcs =>
        \A j \in 1..Len(comments_to_analyze) :
            comments_to_analyze[j] \notin TextsOf(ls_tasks)

\* no two Tasks have the same text
DistinctTexts(tasks) ==
    \A m, n \in 1..Len(tasks) : tasks[m].text = tasks[n].text => m = n

\* C19 (as claimed): if the texts of the prior output are pairwise distinct, so
\* are the texts of the output file when the run has ended.
C19_KeyedByText ==
    (pc = "terminated" /\ DistinctTexts(Loaded) /\ HoldsTasks(file)) =>
        DistinctTexts(FileTasks(file))

\* C20: at most one call of model.generate_content is in progress at any time:
\* one is in progress exactly while an attempt waits for its response, and the
\* next attempt and the next batch start only after it has returned or raised.
C20_OneCallOutstanding ==
    /\ outstanding <= 1
    /\ outstanding = 1 <=> pc = "incall"

\* C20 witness: a retry of the second batch is waiting for its response.
C20_Witness ==
    /\ pc = "incall"
    /\ outstanding = 1
    /\ i > 0
    /\ attempt > 0

\* the rows of the source the claim keeps: the text is there, is no placeholder,
\* and the author is not AutoModerator
KeptAsClaimed(r) ==
    /\ r.Comment # ""
    /\ r.Comment \notin {"[deleted]", "[removed]"}
    /\ r.Author # "AutoModerator"

\* C21 (as claimed): the records read from the source are its rows without those
\* whose text is missing or a placeholder or whose author is AutoModerator, in
\* their order, and no other row is removed.
C21_SourceCleaning ==
    [][ (pc = "read" /\ pc' = "slice") =>
            Comments(df') = Comments(SelectSeq(input_csv.rows, KeptAsClaimed)) ]_vars

\* C22 (as claimed): no exception leaves analyze_comments other than the Ctrl-C
\* of the user: a failure in load_progress, in building processed_comments, in
\* the client, in validation or in formatting is handled inside.
C22_NothingEscapes ==
    raised \in {"none", "KeyboardInterrupt"}

\* C23: the attempt whose response decodes to an array of one element per comment
\* ends the call with that array, with no sleep after it; when the call has
\* returned a list it has made one call more than it has slept, and it makes no
\* further call and takes no further sleep.
C23_SuccessShortCircuits ==
    [][ /\ (pc = "incall" /\ ~TransientError(response', Len(comments_to_analyze))) =>
              /\ pc' = "got"
              /\ sentiments' = Labels(CleanResponse(response').elems)
              /\ calls' = calls
              /\ delays' = delays
              /\ attempt' = attempt
        /\ (pc' = "got" /\ sentiments'.ok) =>
              /\ calls' = attempt' + 1
              /\ Len(delays') = attempt'
        /\ pc = "got" => (calls' = calls /\ delays' = delays) ]_vars

\* C23 witness: the call returned a list at its second attempt, after one call
\* that failed and one sleep.
C23_Witness ==
    /\ pc = "got"
    /\ sentiments.ok
    /\ calls = 2
    /\ delays = <<BackoffUnit>>

C25_Pacing ==
    [][ /\ pc = "got" => pc' \in {"append", "pace", "finally", "killed"}
        /\ (pc = "got" /\ ~Truthy(sentiments) /\ pc' \notin {"finally", "killed"})
              => pc' = "pace"
        /\ pc = "append" => pc' \in {"append", "pace", "finally", "killed"}
        /\ pc = "pace" => pc' \in {"loop", "finally", "killed"}
        /\ (pc' = "loop" /\ pc # "loop") => (pc = "pace" \/ (pc = "filter" /\ i' = 0))
        /\ (pc' = "call" /\ attempt' = 0) => (pc = "loop" /\ pc' # pc)
        /\ (pc = "pace" /\ pc' = "loop") => i' = i + batch_size ]_vars

\* C25 witness: the first remote invocation for the second batch is about to be
\* made after the first batch was exhausted (nothing was appended for it).
C25_Witness ==
    /\ pc = "call"
    /\ attempt = 0
    /\ i > 0
    /\ Len(ls_tasks) = Len(Loaded)

\* C26: a Ctrl-C delivered anywhere in the batch loop, the remote call and the
\* backoff sleep included, takes the run straight to the finally clause with
\* nothing appended and nothing raised; from then on no remote call is started
\* or outstanding, and the next step of the run is the final save.
C26_CancellationEndsLoop ==
    [][ /\ (pc \in LoopPcs /\ exit # "interrupt" /\ exit' = "interrupt") =>
              /\ pc' = "finally"
              /\ outstanding' = 0
              /\ ls_tasks' = ls_tasks
              /\ raised' = raised
              /\ saves' = saves
        /\ exit = "interrupt" =>
              /\ pc' \notin LoopPcs
              /\ outstanding' = 0
              /\ calls' = 0
        /\ (exit = "interrupt" /\ pc = "finally" /\ pc' # "killed") =>
              /\ pc' = "terminated"
              /\ saves' = saves + 1 ]_vars

\* C26 witness: the Ctrl-C arrived while the second batch was being handled,
\* after the first one had been appended; the final save has not run yet.
C26_Witness ==
    /\ pc = "finally"
    /\ exit = "interrupt"
    /\ i > 0
    /\ Len(ls_tasks) > Len(Loaded)
    /\ saves = 0

\* C27 (as claimed): a run that has terminated because of a cancellation or an
\* error that nothing handled, whatever it was doing at the time (loading,
\* reading, filtering, calling, pacing), has saved the progress first.
C27_PersistBeforeTermination ==
    (pc = "terminated" /\ (raised # "none" \/ exit \in {"interrupt", "error"}))
        => saves > 0

\* C28 (as claimed): in a second run over the same source and range, the filter
\* leaves exactly the records of the range that run 1 left without a Task in the
\* file, i.e. the records of its exhausted batches, and none of the texts that
\* run 1 classified.
C28_FailedBatchRetried ==
    [][ ( /\ pc = "filter" /\ pc' \in {"loop", "terminated"} /\ raised' = "none"
          /\ prior_file # MissingFile
          /\ HoldsTasks(prior_file) )
        => /\ Len(df') = Len(df) - Len(Loaded)
           /\ \A j \in 1..Len(df') : df'[j].Comment \notin LoadedTexts ]_vars

C30_BatchPartition ==
    [][ /\ (pc = "loop" /\ pc' = "call") =>
              /\ Len(comments_to_analyze') \in 1..batch_size
              /\ i + Len(comments_to_analyze') <= Len(df)
              /\ \A j \in 1..Len(comments_to_analyze') :
                    comments_to_analyze'[j] = df[i + j].Comment
              /\ Len(comments_to_analyze') < batch_size =>
                    i + Len(comments_to_analyze') = Len(df)
              /\ i' = i /\ df' = df
        /\ (pc \in LoopPcs /\ pc' \in LoopPcs) =>
              /\ df' = df
              /\ pc # "loop" => comments_to_analyze' = comments_to_analyze
        /\ (pc = "pace" /\ pc' = "loop") =>
              \/ i' = i + Len(comments_to_analyze)
              \/ (i + Len(comments_to_analyze) = Len(df) /\ i' >= Len(df))
        /\ (pc \in LoopPcs /\ pc' \in LoopPcs /\ pc # "pace") => i' = i
        /\ (pc = "loop" /\ exit' = "normal") => i >= Len(df) ]_vars

\* C30 witness: three records are left and batch_size is 2; the second batch
\* is being submitted and holds the third record alone.
C30_Witness ==
    /\ pc = "call"
    /\ batch_size = 2
    /\ Len(df) = 3
    /\ i = 2
    /\ comments_to_analyze = <<df[3].Comment>>

\* the rows of d whose index (from 0) lies in [s, e)
RowsInRange(d, s, e) ==
    LET idx == {j \in 1..Len(d) : s <= j - 1 /\ j - 1 < e}
    IN  IF idx = {} THEN <<>> ELSE SubSeq(d, s + 1, Min(e, Len(d)))

\* C31 (as claimed): when a start or an end is given, the range selection keeps
\* exactly the cleaned rows whose index lies in [start, end), an omitted start
\* meaning 0 and an omitted end the number of rows; an end of 0 keeps no row.
C31_RangeRestriction ==
    [][ (pc = "slice" /\ pc' = "filter" /\ RangeGiven) =>
            df' = RowsInRange(df,
                              IF start_from = NONE THEN 0 ELSE start_from,
                              IF end_at = NONE THEN Len(df) ELSE end_at) ]_vars

\* C32 (as claimed): whenever a start or an end is given, a start of 0 included,
\* the cap plays no part: the rows that enter the loop are all the rows of the
\* range whose text was not loaded.
C32_CapOnlyWithoutRange ==
    [][ (pc = "filter" /\ pc' = "loop" /\ RangeGiven) =>
            df' = SelectSeq(df, LAMBDA r : r.Comment \notin LoadedTexts) ]_vars

\* C33 (as claimed): with a cap L >= 0 and neither start nor end given, the rows
\* that go on to be submitted are the first L candidate rows in source order,
\* hence at most L of them.
C33_CapBoundsSubmitted ==
    [][ (pc = "filter" /\ pc' = "loop" /\ ~RangeGiven /\ limit # NONE) =>
            /\ Len(df') <= limit
            /\ df' = RowsInRange(SelectSeq(df, LAMBDA r : r.Comment \notin LoadedTexts),
                                 0, limit) ]_vars

\* the rows of d whose text was not loaded from the output file
Fresh(d) == SelectSeq(d, LAMBDA r : r.Comment \notin LoadedTexts)

\* C34 (as claimed): with a cap L of at least 1 and no range, the cap is taken
\* on the cleaned rows first and the dedup filter second: the rows that enter
\* the loop are those of the first L cleaned rows whose text was not loaded.
C34_CapBeforeFilter ==
    [][ (pc = "filter" /\ pc' = "loop" /\ ~RangeGiven /\ limit # NONE /\ limit >= 1) =>
            df' = Fresh(RowsInRange(df, 0, limit)) ]_vars

\* C34 (amended): the dedup filter comes first and the cap second: with a cap L
\* and no range, the rows that enter the loop are the first rows, in source
\* order, of those whose text was not loaded, min(L, their number) of them when
\* L is at least 1; the run ends at the filter only when no such row exists.
C34_CapAfterFilter ==
    [][ /\ (pc = "filter" /\ pc' = "loop" /\ ~RangeGiven /\ limit # NONE) =>
              /\ Len(df') <= Len(Fresh(df))
              /\ df' = SubSeq(Fresh(df), 1, Len(df'))
              /\ limit >= 1 => Len(df') = Min(limit, Len(Fresh(df)))
        /\ ( /\ pc = "filter" /\ pc' = "terminated" /\ raised' = "none"
              /\ ~RangeGiven /\ limit # NONE )
            => Fresh(df) = <<>> ]_vars

\* C34 witness: cap 1, no range, the first of two cleaned rows was loaded from
\* the output file: the second row alone enters the loop.
C34_Witness ==
    /\ pc = "loop"
    /\ i = 0
    /\ limit = 1
    /\ ~RangeGiven
    /\ committed = 1
    /\ Len(input_csv.rows) = 2
    /\ input_csv.rows[1].Comment \in LoadedTexts
    /\ df = <<input_csv.rows[2]>>

\* C35 (as claimed): a run that has ended without an exception leaving it, be it
\* a success, a handled failure or a cancellation caught in the loop, has called
\* save_progress exactly once.
C35_ExactlyOneSave ==
    (pc = "terminated" /\ raised = "none") => saves = 1

\* C35 (amended): save_progress is never called twice in a run; a run that has
\* ended has called it once if it had entered the batch loop (and left it
\* normally, by a handled error or by a caught Ctrl-C) and not at all if it
\* ended before the loop; no save happens while the run is still going.
C35_OneSaveIffLoopEntered ==
    /\ saves \in {0, 1}
    /\ saves = 1 => pc = "terminated"
    /\ pc = "terminated" => (saves = 1 <=> exit \in {"normal", "error", "interrupt"})

\* C35 witness: an exception inside the loop was handled and the run ended with
\* its one save done.
C35_Witness ==
    /\ pc = "terminated"
    /\ exit = "error"
    /\ raised = "none"
    /\ saves = 1
    /\ save_result = "ok"

\* C36: with an output file that is there but could not be read or parsed, a run
\* that finds a record to process enters the loop with nothing loaded, and the
\* file its final save writes holds the Tasks of this run alone, in place of the
\* old content; a run that finds no record ends at the filter and leaves the
\* file as it was.
C36_CorruptPriorOverwritten ==
    [][ /\ ( /\ pc = "filter" /\ Unparseable(prior_file)
              /\ pc' # "killed" /\ raised' = "none" )
            => /\ ls_tasks = <<>>
               /\ file = prior_file
               /\ IF df # <<>>
                  THEN pc' = "loop"
                  ELSE pc' = "terminated" /\ file' = prior_file /\ saves' = 0
        /\ ( /\ pc = "finally" /\ pc' = "terminated" /\ Unparseable(prior_file)
              /\ save_result' = "ok" )
            => /\ file' = TasksFile(ls_tasks)
               /\ file' # prior_file
               /\ Len(ls_tasks) <= Len(df)
               /\ \A j \in 1..Len(ls_tasks) :
                     /\ \E x \in 1..Len(df) : ls_tasks[j].text = df[x].Comment
                     /\ ls_tasks[j].label \in valid_labels ]_vars

\* C36 witness: the output file held broken JSON, a record was classified, and
\* the run ended with the file holding that one Task.
C36_Witness ==
    /\ pc = "terminated"
    /\ prior_file = CorruptFile
    /\ save_result = "ok"
    /\ HoldsTasks(file)
    /\ Len(FileTasks(file)) = 1

\* ceil(n / d) for d >= 1
CeilDiv(n, d) == (n + d - 1) \div d

\* C37: a run that is not cancelled terminates; a new batch is started only
\* while records are left, every batch advances the loop by batch_size, and the
\* loop is left, for the final save, exactly when ceil(R / batch_size) batches
\* have been attempted, R being the number of remaining records; no batch makes
\* more than 3 remote calls, so the run makes at most 3 * ceil(R / batch_size).
C37_Termination ==
    /\ <>(pc = "terminated")
    /\ [][ /\ (pc' = "finally" /\ pc # "finally") =>
                 /\ pc = "loop"
                 /\ i = batch_size * CeilDiv(Len(df), batch_size)
           /\ (pc = "loop" /\ pc' = "call") =>
                 /\ i < Len(df)
                 /\ i % batch_size = 0
                 /\ calls' = 0
           /\ (pc = "pace" /\ pc' = "loop") => i' = i + batch_size
           /\ pc # "pace" => (i' = i \/ pc' = "terminated")
           /\ calls' <= MaxAttempts
           /\ calls' \in {calls, calls + 1, 0} ]_vars

\* C37 witness: one record was left with batch_size 2; the run has attempted
\* its ceil(1 / 2) = 1 batch and has left the loop for the final save.
C37_Witness ==
    /\ pc = "finally"
    /\ exit = "normal"
    /\ Len(df) = 1
    /\ batch_size = 2
    /\ i = 2

\* ------------------------------------------- the legacy analyze_comments
\* src/gemini_classifier.py, lines 115-127: read, clean, cap
LegacyDf(rows, lim) ==
    LET kept == SelectSeq(read_csv(rows),
                          LAMBDA r : /\ r.Comment # NaN
                                     /\ r.Comment \notin {"[deleted]", "[removed]"}
                                     /\ r.Author \notin {"AutoModerator"})
    IN  IF ~Falsy(lim) THEN DfHead(kept, lim) ELSE kept

\* lines 140-142: the batch that starts at row i
LegacyBatch(d, at, size) ==
    [j \in 1..Min(size, Len(d) - at) |-> d[at + j].Comment]

\* lines 85-104
LegacyFormat(comment_text, label, model_version) ==
    [text |-> comment_text, label |-> label, model_version |-> model_version]

\* lines 145-154: the Tasks one batch adds, none when the client returned None
\* (or an empty list)
LegacyBatchTasks(comments, s) ==
    IF s.ok /\ Len(s.vals) > 0
    THEN [j \in 1..Min(Len(comments), Len(s.vals)) |->
            LegacyFormat(comments[j],
                         IF s.vals[j] \notin {"positive", "negative", "neutral"}
                         THEN "neutral" ELSE s.vals[j],
                         ModelName)]
    ELSE <<>>

\* lines 157-158: json.dump(ls_tasks, f, ensure_ascii=False, indent=2)
LegacyDump(tasks) ==
    [kind |-> "text", text |-> json_dump(tasks)]

\* no prior output file and no range: what C38 assumes of the resumable run
LikeLegacy == prior_file = MissingFile /\ ~RangeGiven

\* C38: with no prior output file, no range and no interruption, every phase of
\* the resumable run computes what the legacy function computes from the same
\* data: the rows it works on (cleaned, then capped), the slice of each batch,
\* the Tasks each batch adds for the value the client returned (appended after
\* the Tasks of the batches before, which stay as they are), the end of the
\* loop, and the file the save writes; hence the same Task sequence is written.
C38_LegacyEquivalence ==
    [][ LikeLegacy =>
          /\ (pc = "filter" /\ pc' = "loop") =>
                (df' = LegacyDf(input_csv.rows, limit) /\ ls_tasks' = <<>> /\ i' = 0)
          /\ (pc = "filter" /\ pc' = "terminated") =>
                LegacyDf(input_csv.rows, limit) = <<>>
          /\ (pc = "loop" /\ pc' = "call") =>
                /\ i < Len(df)
                /\ comments_to_analyze' = LegacyBatch(df, i, batch_size)
          /\ (pc = "loop" /\ pc' = "finally") => i >= Len(df)
          /\ (pc = "pace" /\ pc' = "loop") => i' = i + batch_size
          /\ (pc \in LoopPcs /\ pc \notin {"got", "append"} /\ pc' \in LoopPcs) =>
                ls_tasks' = ls_tasks
          /\ (pc = "got" /\ pc' \in LoopPcs) =>
                (ls_tasks' = ls_tasks /\ Len(ls_tasks) = committed)
          /\ (pc \in {"got", "append"} /\ pc' = "pace") =>
                ls_tasks' = SubSeq(ls_tasks, 1, committed)
                              \o LegacyBatchTasks(comments_to_analyze, sentiments)
          /\ (pc = "append" /\ pc' = "append") =>
                SubSeq(ls_tasks', 1, committed) = SubSeq(ls_tasks, 1, committed)
          /\ (pc = "finally" /\ pc' = "terminated" /\ save_result' = "ok") =>
                file' = LegacyDump(ls_tasks) ]_vars

\* C38 witness: no prior file, no range, cap 1 on a source of two rows; the run
\* has ended and the file holds the one Task the legacy run would have written.
C38_Witness ==
    /\ pc = "terminated"
    /\ exit = "normal"
    /\ prior_file = MissingFile
    /\ ~RangeGiven
    /\ limit = 1
    /\ Len(input_csv.rows) = 2
    /\ save_result = "ok"
    /\ HoldsTasks(file)
    /\ Len(FileTasks(file)) = 1
====
